---------------------------- MODULE Spec2Model ----------------------------
(***************************************************************************)
(* A model of beancount-language-server: the symbol index builder          *)
(* (beancount.rs, Data::read), the completion resolver (main.rs, State)    *)
(* and the backend's request handlers around the shared Document State     *)
(* (main.rs, Backend).                                                     *)
(*                                                                         *)
(* Strings are sequences of one-character strings, so that trimming,       *)
(* splitting, slicing and prefix tests are computed as the code computes   *)
(* them.  The concrete syntax tree is supplied by tree-sitter; a document  *)
(* is represented by the tree the parser yields for it: a sequence of      *)
(* top-level nodes, each with the fields the code reads.                   *)
(***************************************************************************)
EXTENDS Integers, Sequences, FiniteSets, TLC

VARIABLES
    fs,           \* the file system: path -> file
    state,        \* Backend.state: the Document State behind the RwLock
    lock,         \* the RwLock: its writer and its readers
    task,         \* the request handlers in flight, one per slot
    reply,        \* the last answer a handler gave
    built,        \* the last build that succeeded, if any: its root and its Data
    crashed,      \* the process was aborted
    uri,          \* DataSpec: the root handed to Data::new
    data_result,  \* DataSpec: what Data::new returned
    response      \* CompletionSpec: the call made and what it returned

vars == <<fs, state, lock, task, reply, built, crashed,
          uri, data_result, response>>

-----------------------------------------------------------------------------
(* Option<T> *)

None == <<>>

Some(v) == <<v>>

is_none(o) == o = <<>>

unwrap(o) == o[1]

-----------------------------------------------------------------------------
(* Strings *)

RECURSIVE trim_start_matches(_, _)
trim_start_matches(s, c) ==
    IF s # <<>> /\ Head(s) = c THEN trim_start_matches(Tail(s), c) ELSE s

RECURSIVE trim_end_matches(_, _)
trim_end_matches(s, c) ==
    IF s # <<>> /\ s[Len(s)] = c
    THEN trim_end_matches(SubSeq(s, 1, Len(s) - 1), c)
    ELSE s

Whitespace == {" ", "\n", "\t"}

RECURSIVE trim_end(_)
trim_end(s) ==
    IF s # <<>> /\ s[Len(s)] \in Whitespace
    THEN trim_end(SubSeq(s, 1, Len(s) - 1))
    ELSE s

starts_with(s, p) ==
    /\ Len(p) <= Len(s)
    /\ SubSeq(s, 1, Len(p)) = p

\* str::split(c): the pieces between the occurrences of c, empty ones included
RECURSIVE split(_, _)
split(s, c) ==
    IF \A i \in 1..Len(s) : s[i] # c
    THEN <<s>>
    ELSE LET i == CHOOSE k \in 1..Len(s) :
                      s[k] = c /\ \A j \in 1..(k - 1) : s[j] # c
         IN  <<SubSeq(s, 1, i - 1)>> \o split(SubSeq(s, i + 1, Len(s)), c)

RECURSIVE join(_, _)
join(parts, sep) ==
    IF parts = <<>> THEN <<>>
    ELSE IF Len(parts) = 1 THEN parts[1]
    ELSE parts[1] \o sep \o join(Tail(parts), sep)

\* Iterator::filter on a sequence
RECURSIVE filter_nonempty(_)
filter_nonempty(parts) ==
    IF parts = <<>> THEN <<>>
    ELSE IF Head(parts) # <<>>
         THEN <<Head(parts)>> \o filter_nonempty(Tail(parts))
         ELSE filter_nonempty(Tail(parts))

\* the characters that take more than one byte in UTF-8
MultiByte == {"é"}

Range(s) == {s[i] : i \in 1..Len(s)}

\* HashMap::extend: the entries of m2 replace those of m1
extend(m1, m2) ==
    [k \in DOMAIN m1 \cup DOMAIN m2 |->
        IF k \in DOMAIN m2 THEN m2[k] ELSE m1[k]]

EmptyMap == [k \in {} |-> None]

-----------------------------------------------------------------------------
(* Paths and URIs *)

Quote == "\""

Quoted(s) == <<Quote>> \o s \o <<Quote>>

\* Path::is_absolute
is_absolute(path) == path # <<>> /\ Head(path) = "/"

\* Path::parent: the path without its last component
RECURSIVE parent(_)
parent(path) ==
    IF path = <<>> THEN <<>>
    ELSE IF path[Len(path)] = "/"
         THEN IF Len(path) = 1 THEN path ELSE SubSeq(path, 1, Len(path) - 1)
         ELSE parent(SubSeq(path, 1, Len(path) - 1))

\* Path::join with a relative path
path_join(dir, rel) ==
    IF dir # <<>> /\ dir[Len(dir)] = "/" THEN dir \o rel ELSE dir \o <<"/">> \o rel

\* Url::from_file_path: None unless the path is absolute
from_file_path(path) ==
    IF is_absolute(path) THEN Some([scheme |-> "file", path |-> path]) ELSE None

\* Url::to_file_path: None unless the URL is a file URL
to_file_path(u) ==
    IF u.scheme = "file" THEN Some(u.path) ELSE None

-----------------------------------------------------------------------------
(* Documents: the tree tree-sitter yields for a ledger text *)

USD == <<"U", "S", "D">>

EUR == <<"E", "U", "R">>

Date == <<"2", "1", "-", "0", "7">>

Star == <<"*">>

\* a top-level node: its kind and its span. row is the row it starts on;
\* end_row and end_col are where it ends. A directive holds its end of line, so
\* it ends at column 0 of the row after its last line; Doc lays the rows out.
Commodity(currency) ==
    [kind |-> "commodity", row |-> 0, end_row |-> 1, end_col |-> 0,
     currency |-> currency]

Include(string) ==
    [kind |-> "include", row |-> 0, end_row |-> 1, end_col |-> 0,
     string |-> string]

OptionDirective(key, value) ==
    [kind |-> "option", row |-> 0, end_row |-> 1, end_col |-> 0,
     key |-> key, value |-> value]

Plugin(string) ==
    [kind |-> "plugin", row |-> 0, end_row |-> 1, end_col |-> 0,
     string |-> string]

Open(date, account) ==
    [kind |-> "open", row |-> 0, end_row |-> 1, end_col |-> 0,
     date |-> date, account |-> account]

\* a blank line
Newline ==
    [kind |-> "\n", row |-> 0, end_row |-> 1, end_col |-> 0]

\* the children of a posting_or_kv_list
PostingWith(account, amount, cost_spec, comment) ==
    [kind |-> "posting", account |-> account, amount |-> amount,
     cost_spec |-> cost_spec, comment |-> comment]

Posting(account, amount) == PostingWith(account, amount, None, None)

Comment(text) == [kind |-> "comment", text |-> text]

KeyValue(text) == [kind |-> "key_value", text |-> text]

Amount(number, currency) ==
    Some(<<[kind |-> "number", text |-> number],
           [kind |-> "currency", text |-> currency]>>)

\* a transaction; the field posting_or_kv_list is absent when the list is empty
Txn(date, txn, txn_strings, postings) ==
    [kind |-> "transaction", row |-> 0, end_row |-> 1 + Len(postings),
     end_col |-> 0, date |-> date, txn |-> txn, txn_strings |-> txn_strings,
     posting_or_kv_list |-> postings]

Transaction(txn_strings, postings) ==
    Txn(Some(Date), Some(Star), txn_strings, postings)

\* a token the grammar could not classify, and an identifier
Unparsed(kind, text) ==
    [kind |-> kind, row |-> 0, end_row |-> 1, end_col |-> 0, text |-> text]

\* the number of lines a top-level node takes
height(item) == item.end_row - item.row

\* the nodes in source order, each starting on the row the one before ends on
RECURSIVE layout(_, _)
layout(items, row) ==
    IF items = <<>> THEN <<>>
    ELSE LET item == Head(items) IN
         <<[item EXCEPT !.row = row, !.end_row = row + height(item)]>>
         \o layout(Tail(items), row + height(item))

Doc(items) == layout(items, 0)

\* a document whose last line has no end of line: its last node ends on that line
Unterminated(doc) ==
    IF doc = <<>> THEN doc
    ELSE [doc EXCEPT ![Len(doc)].end_row = @ - 1, ![Len(doc)].end_col = 1]

File(items) ==
    [readable |-> TRUE, parses |-> TRUE, items |-> Doc(items)]

\* a path that cannot be read: no such file, a directory, no permission
NoFile == [readable |-> FALSE, parses |-> FALSE, items |-> <<>>]

\* a text for which Parser::parse returns None
NoTree == [readable |-> TRUE, parses |-> FALSE, items |-> <<>>]

\* Iterator::filter(|c| c.kind() == kind) over the children of a node
RECURSIVE children_of_kind(_, _)
children_of_kind(nodes, kind) ==
    IF nodes = <<>> THEN <<>>
    ELSE IF Head(nodes).kind = kind
         THEN <<Head(nodes)>> \o children_of_kind(Tail(nodes), kind)
         ELSE children_of_kind(Tail(nodes), kind)

-----------------------------------------------------------------------------
(* beancount.rs: Data *)

Ok(v) == [tag |-> "Ok", value |-> v]

Err(e) == [tag |-> "Err", value |-> e]

\* the process does not return: a panic, or the stack is exhausted
Abort(e) == [tag |-> "Abort", value |-> e]

DataDefault ==
    [commodities |-> EmptyMap, accounts |-> {}, currencies |-> {},
     payees |-> {}, text |-> <<>>]

\* the depth of recursion at which the stack is exhausted
StackDepth == 6

\* std::fs::read_to_string
read_to_string(path) ==
    IF path \in DOMAIN fs /\ fs[path].readable
    THEN Ok(fs[path])
    ELSE Err("IoError")

\* the commodity directives of a file: currency -> Location, the last one wins
RECURSIVE read_commodities(_, _, _)
read_commodities(u, nodes, commodities) ==
    IF nodes = <<>> THEN Ok(commodities)
    ELSE LET commodity == Head(nodes) IN
         IF is_none(commodity.currency) THEN Err("InvalidState")
         ELSE LET location == [uri |-> u,
                               range |-> [start |-> commodity.row,
                                          end |-> commodity.end_row]]
              IN read_commodities(u, Tail(nodes),
                     extend(commodities,
                            [k \in {unwrap(commodity.currency)} |-> location]))

\* the payee of a transaction: the first of its strings, without its quotes
read_payees(transactions) ==
    {trim_start_matches(trim_end_matches(unwrap(t.txn_strings)[1], Quote), Quote) :
        t \in {x \in Range(transactions) :
                  ~is_none(x.txn_strings) /\ unwrap(x.txn_strings) # <<>>}}

read_postings(transactions) ==
    UNION {Range(children_of_kind(t.posting_or_kv_list, "posting")) :
              t \in Range(transactions)}

read_accounts(transactions) ==
    {p.account : p \in read_postings(transactions)}

read_currencies(transactions) ==
    UNION {{c.text : c \in Range(children_of_kind(unwrap(p.amount), "currency"))} :
              p \in {q \in read_postings(transactions) : ~is_none(q.amount)}}

\* the path an include directive names, seen from the including file
include_path(file_path, string) ==
    LET filename == trim_end_matches(trim_start_matches(string, Quote), Quote) IN
    IF is_absolute(filename) THEN filename
    ELSE IF is_absolute(file_path) THEN path_join(parent(file_path), filename)
    ELSE filename

\* the merge of what an included file yielded into the data of the including one
merge_include(data, include_data) ==
    [data EXCEPT
        !.commodities = extend(data.commodities, include_data.commodities),
        !.accounts = data.accounts \cup include_data.accounts,
        !.currencies = data.currencies \cup include_data.currencies]

\* merge_own with the commodities merged the other way round: an included
\* file's declaration replaces the file's own
merge_own_included_wins(data, commodities, accounts, currencies, payees, text) ==
    [commodities |-> extend(commodities, data.commodities),
     accounts |-> data.accounts \cup accounts,
     currencies |-> data.currencies \cup currencies,
     payees |-> data.payees \cup payees,
     text |-> text]

\* the merge of a file's own findings over what its includes yielded
merge_own(data, commodities, accounts, currencies, payees, text) ==
    [commodities |-> extend(data.commodities, commodities),
     accounts |-> data.accounts \cup accounts,
     currencies |-> data.currencies \cup currencies,
     payees |-> data.payees \cup payees,
     text |-> text]

RECURSIVE read(_, _, _)
RECURSIVE include_datas(_, _, _, _)

\* the includes of a file in order: those that fail to load are skipped
include_datas(includes, file_path, data, depth) ==
    IF includes = <<>> THEN Ok(data)
    ELSE LET include == Head(includes) IN
         IF is_none(include.string)
         THEN include_datas(Tail(includes), file_path, data, depth)
         ELSE LET path == include_path(file_path, unwrap(include.string))
                  u == from_file_path(path)
              IN IF is_none(u) THEN Abort("unwrap")
                 ELSE LET r == read(unwrap(u), DataDefault, depth + 1) IN
                      CASE r.tag = "Abort" -> r
                        [] r.tag = "Err" ->
                             include_datas(Tail(includes), file_path, data, depth)
                        [] OTHER ->
                             include_datas(Tail(includes), file_path,
                                           merge_include(data, r.value), depth)

\* Data::read: recursively read ledgers, i.e. those included
read(u, data, depth) ==
    IF depth > StackDepth THEN Abort("stack overflow")
    ELSE
    LET file_path == to_file_path(u) IN
    IF is_none(file_path) THEN Err("UriToPathConversion")
    ELSE
    LET text == read_to_string(unwrap(file_path)) IN
    IF text.tag = "Err" THEN text
    ELSE IF ~text.value.parses THEN Err("TreeParseError")
    ELSE
    LET nodes == text.value.items
        commodities == read_commodities(u, children_of_kind(nodes, "commodity"),
                                        EmptyMap)
    IN
    IF commodities.tag = "Err" THEN commodities
    ELSE
    LET transactions == children_of_kind(nodes, "transaction")
        included == include_datas(children_of_kind(nodes, "include"),
                                  unwrap(file_path), data, depth)
    IN
    IF included.tag = "Abort" THEN included
    ELSE Ok(merge_own(included.value, commodities.value,
                      read_accounts(transactions), read_currencies(transactions),
                      read_payees(transactions), text.value.items))

\* Data::new
DataNew(u) == read(u, DataDefault, 1)

-----------------------------------------------------------------------------
(* main.rs: State, the completion resolver *)

\* the labels of a CompletionResponse::Array, each with the number of items
\* that carry it
NoItems == [label \in {} |-> 0]

add_item(items, label) ==
    [l \in DOMAIN items \cup {label} |->
        (IF l \in DOMAIN items THEN items[l] ELSE 0) + (IF l = label THEN 1 ELSE 0)]

Array(items) == [array |-> items]

\* trie_rs Trie::predictive_search: the stored sequences that start with the
\* query, the query itself included when it is stored
predictive_search(trie, query) ==
    {seq \in trie : starts_with(seq, query)}

account_sequence_from(node) ==
    filter_nonempty(split(node.text, ":"))

\* one item per sequence found: its segments after the prefix, joined by ':'
RECURSIVE suffix_items(_, _)
suffix_items(result, prefix_length) ==
    IF result = {} THEN NoItems
    ELSE LET seq == CHOOSE x \in result : TRUE IN
         add_item(suffix_items(result \ {seq}, prefix_length),
                  join(SubSeq(seq, prefix_length + 1, Len(seq)), <<":">>))

\* completion_response_from with the prefix left in the labels
completion_response_from_whole(sequence, trie) ==
    IF is_none(trie) THEN Err("TrieEmpty")
    ELSE Ok(Array(suffix_items(predictive_search(unwrap(trie), sequence), 0)))

completion_response_from(sequence, trie) ==
    IF is_none(trie) THEN Err("TrieEmpty")
    ELSE Ok(Array(suffix_items(predictive_search(unwrap(trie), sequence),
                               Len(sequence))))

handle_character_triggered(st, node) ==
    LET sequence == account_sequence_from(node) IN
    IF sequence = <<>> THEN Ok(None)
    ELSE LET r == completion_response_from(sequence, st.account_trie) IN
         IF r.tag = "Ok" THEN Ok(Some(r.value)) ELSE r

\* handle_account with the trailing segment kept
handle_account_whole(st, node) ==
    LET sequence == account_sequence_from(node) IN
    IF Len(sequence) < 2 THEN Ok(None)
    ELSE LET r == completion_response_from(sequence, st.account_trie)
         IN IF r.tag = "Ok" THEN Ok(Some(r.value)) ELSE r

handle_account(st, node) ==
    LET sequence == account_sequence_from(node) IN
    IF Len(sequence) < 2 THEN Ok(None)
    ELSE LET r == completion_response_from(SubSeq(sequence, 1, Len(sequence) - 1),
                                           st.account_trie)
         IN IF r.tag = "Ok" THEN Ok(Some(r.value)) ELSE r

\* one item per element of a set of strings
RECURSIVE items_of(_)
items_of(strings) ==
    IF strings = {} THEN NoItems
    ELSE LET x == CHOOSE y \in strings : TRUE IN
         add_item(items_of(strings \ {x}), x)

handle_currency(st, node) ==
    IF is_none(st.currency_trie) THEN Abort("unwrap")
    ELSE Ok(Some(Array(items_of(
             predictive_search(unwrap(st.currency_trie), node.text)))))

RootAccounts ==
    << <<"E", "x", "p", "e", "n", "s", "e", "s">>,
       <<"A", "s", "s", "e", "t", "s">>,
       <<"L", "i", "a", "b", "i", "l", "i", "t", "i", "e", "s">>,
       <<"E", "q", "u", "i", "t", "y">>,
       <<"R", "e", "v", "e", "n", "u", "e">> >>

\* handle_identifier comparing the identifier with the whole root name
RECURSIVE first_root_account_whole(_, _)
first_root_account_whole(accounts, identifier) ==
    IF accounts = <<>> THEN Ok(None)
    ELSE IF starts_with(Head(accounts), identifier)
         THEN Ok(Some(Array(add_item(NoItems, Head(accounts)))))
         ELSE first_root_account_whole(Tail(accounts), identifier)

\* the loop of handle_identifier: the first root account whose name without
\* its first character starts with the identifier
RECURSIVE first_root_account(_, _)
first_root_account(accounts, identifier) ==
    IF accounts = <<>> THEN Ok(None)
    ELSE IF starts_with(Tail(Head(accounts)), identifier)
         THEN Ok(Some(Array(add_item(NoItems, Head(accounts)))))
         ELSE first_root_account(Tail(accounts), identifier)

handle_identifier(st, node) ==
    first_root_account(RootAccounts, node.text)

\* &s[1..]: the string from byte offset 1, a panic when that is past the end or
\* inside a character
slice_from_1(s) ==
    IF s = <<>> \/ Head(s) \in MultiByte THEN None ELSE Some(Tail(s))

handle_error(st, node) ==
    LET sliced == slice_from_1(node.text) IN
    IF is_none(sliced) THEN Abort("slice")
    ELSE LET prefix == trim_end(unwrap(sliced))
             candidates == {p \in st.payees : starts_with(p, prefix)}
         IN IF candidates = {} THEN Ok(None)
            ELSE Ok(Some(Array(items_of(candidates))))

handle_node(st, node) ==
    CASE node.kind = "currency" -> handle_currency(st, node)
      [] node.kind = "identifier" -> handle_identifier(st, node)
      [] node.kind = "account" -> handle_account(st, node)
      [] node.kind = "ERROR" -> handle_error(st, node)
      [] OTHER -> Ok(None)

-----------------------------------------------------------------------------
(* main.rs: the node under the cursor *)

Node(kind, text) == [kind |-> kind, text |-> text]

\* the named leaves of a top-level node, in source order
RECURSIVE posting_leaves(_)
posting_leaves(entries) ==
    IF entries = <<>> THEN <<>>
    ELSE LET p == Head(entries) IN
         (IF p.kind = "posting"
          THEN <<Node("account", p.account)>> \o
               (IF is_none(p.amount) THEN <<>> ELSE unwrap(p.amount))
          ELSE <<>>)
         \o posting_leaves(Tail(entries))

leaves(item) ==
    CASE item.kind = "commodity" ->
            IF is_none(item.currency) THEN <<>>
            ELSE <<Node("currency", unwrap(item.currency))>>
      [] item.kind = "include" ->
            IF is_none(item.string) THEN <<>>
            ELSE <<Node("string", unwrap(item.string))>>
      [] item.kind = "transaction" ->
            (IF is_none(item.txn_strings) THEN <<>>
             ELSE [i \in 1..Len(unwrap(item.txn_strings)) |->
                      Node("string", unwrap(item.txn_strings)[i])])
            \o posting_leaves(item.posting_or_kv_list)
      [] OTHER -> <<Node(item.kind, item.text)>>

\* Node::utf8_text of a node that is not a leaf
node_text(item) ==
    LET ls == leaves(item) IN
    join([i \in 1..Len(ls) |-> ls[i].text], <<" ">>)

\* Node::named_descendant_for_point_range: a position is the row of a
\* top-level node and the number of the leaf the cursor stands behind; off the
\* leaves it is the enclosing node
named_descendant_for_point_range(text, line, character) ==
    IF line + 1 \in 1..Len(text)
    THEN LET item == text[line + 1]
             ls == leaves(item)
         IN IF character \in 1..Len(ls) THEN Some(ls[character])
            ELSE Some(Node(item.kind, node_text(item)))
    ELSE Some(Node("file", join([i \in 1..Len(text) |-> node_text(text[i])],
                                <<"\n">>)))

\* Backend::completion without the guard on the account trie
completion_unguarded(st, line, character, is_character_triggered) ==
    LET node == named_descendant_for_point_range(st.text, line, character) IN
    IF is_none(node) THEN Ok(None)
    ELSE IF is_character_triggered
         THEN handle_character_triggered(st, unwrap(node))
         ELSE handle_node(st, unwrap(node))

\* Backend::completion, under the read lock
completion(st, line, character, is_character_triggered) ==
    IF is_none(st.account_trie) THEN Ok(None)
    ELSE LET node == named_descendant_for_point_range(st.text, line, character) IN
         IF is_none(node) THEN Ok(None)
         ELSE IF is_character_triggered
              THEN handle_character_triggered(st, unwrap(node))
              ELSE handle_node(st, unwrap(node))

\* Backend::goto_definition, under the read lock
goto_definition(st, line, character) ==
    LET node == named_descendant_for_point_range(st.text, line, character) IN
    IF ~is_none(node) /\ unwrap(node).kind = "currency"
    THEN IF unwrap(node).text \in DOMAIN st.commodities
         THEN Ok(Some(<<st.commodities[unwrap(node).text]>>))
         ELSE Ok(None)
    ELSE Ok(None)

-----------------------------------------------------------------------------
(* beancount.rs: reformat *)

\* str::repeat
RECURSIVE repeat(_, _)
repeat(c, n) == IF n <= 0 THEN <<>> ELSE <<c>> \o repeat(c, n - 1)

\* format!("{:>width$}", s): s behind the spaces that fill it up to width
pad_left(s, width) == repeat(" ", width - Len(s)) \o s

\* str::find: the offset of the first occurrence of c
find(s, c) ==
    IF \E i \in 1..Len(s) : s[i] = c
    THEN Some((CHOOSE i \in 1..Len(s) :
                  s[i] = c /\ \A j \in 1..(i - 1) : s[j] # c) - 1)
    ELSE None

\* the first result of a sequence that is not Ok, if there is one
first_failure(results) ==
    IF \E i \in 1..Len(results) : results[i].tag # "Ok"
    THEN Some(results[CHOOSE i \in 1..Len(results) :
                         /\ results[i].tag # "Ok"
                         /\ \A j \in 1..(i - 1) : results[j].tag = "Ok"])
    ELSE None

\* the amount of a posting: the number right-aligned so that its period, or its
\* end, comes 46 columns after the account's first character
reformat_amount(account, amount) ==
    IF is_none(amount) THEN Ok(<<>>)
    ELSE LET amount_children == unwrap(amount) IN
         IF Len(amount_children) # 2 THEN Abort("assert_eq")
         ELSE IF 50 - 4 - Len(account) < 0 THEN Abort("subtract with overflow")
         ELSE LET number == amount_children[1].text
                  width == 50 - 4 - Len(account)
                  currency == amount_children[2].text
                  position == find(number, ".")
              IN IF is_none(position)
                 THEN Ok(<<" ">> \o pad_left(number, width) \o <<" ">> \o currency)
                 ELSE LET numerator == SubSeq(number, 1, unwrap(position))
                          denominator == SubSeq(number, unwrap(position) + 2,
                                                Len(number))
                      IN Ok(<<" ">> \o pad_left(numerator, width) \o <<".">>
                            \o denominator \o <<" ">> \o currency)

\* the closure of reformat_postings: the line of one posting
reformat_posting(p) ==
    LET amount == reformat_amount(p.account, p.amount)
        cost == IF is_none(p.cost_spec) THEN <<>>
                ELSE <<" ">> \o unwrap(p.cost_spec)
        comment == IF is_none(p.comment) THEN <<>>
                   ELSE <<" ", " ">> \o unwrap(p.comment)
    IN IF amount.tag # "Ok" THEN amount
       ELSE Ok(<<" ", " ">> \o p.account \o amount.value \o cost \o comment)

reformat_postings(postings) ==
    LET cs == children_of_kind(postings, "comment")
        comments == [i \in 1..Len(cs) |-> <<" ", " ">> \o cs[i].text \o <<"\n">>]
        ps == children_of_kind(postings, "posting")
        formatted == [i \in 1..Len(ps) |-> reformat_posting(ps[i])]
        failure == first_failure(formatted)
    IN IF ~is_none(failure) THEN unwrap(failure)
       ELSE Ok(join(comments, <<"\n">>)
               \o join([i \in 1..Len(ps) |-> formatted[i].value], <<"\n">>))

\* the closure newlines of reformat_top_level
newlines(node, current) ==
    repeat("\n", current.row - node.end_row + 1)

\* the first line of a transaction
first_line(node) ==
    IF is_none(node.date) \/ is_none(node.txn) \/ is_none(node.txn_strings)
    THEN Err("InvalidState")
    ELSE LET txn_strings == unwrap(node.txn_strings)
             head == unwrap(node.date) \o <<" ">> \o unwrap(node.txn) \o <<" ">>
         IN CASE Len(txn_strings) = 0 -> Abort("index out of bounds")
              [] Len(txn_strings) = 1 -> Ok(head \o txn_strings[1])
              [] Len(txn_strings) = 2 ->
                     Ok(head \o txn_strings[1] \o <<" ">> \o txn_strings[2])
              [] OTHER -> Err("UnexpectedFormat")

\* what a node renders itself as, before the newlines and the nodes that follow
reformat_node(node) ==
    CASE node.kind = "option" ->
            IF is_none(node.key) \/ is_none(node.value) THEN Err("InvalidState")
            ELSE Ok(<<"o", "p", "t", "i", "o", "n", " ">> \o unwrap(node.key)
                    \o <<" ">> \o unwrap(node.value))
      [] node.kind = "plugin" ->
            IF is_none(node.string) THEN Abort("unwrap")
            ELSE Ok(<<"p", "l", "u", "g", "i", "n", " ">> \o unwrap(node.string))
      [] node.kind = "open" ->
            IF is_none(node.date) \/ is_none(node.account) THEN Err("InvalidState")
            ELSE Ok(unwrap(node.date) \o <<" ", "o", "p", "e", "n", " ">>
                    \o unwrap(node.account))
      [] node.kind = "include" ->
            IF is_none(node.string) THEN Abort("unwrap")
            ELSE Ok(<<"i", "n", "c", "l", "u", "d", "e", " ">>
                    \o unwrap(node.string))
      [] node.kind = "transaction" ->
            LET first == first_line(node) IN
            IF first.tag # "Ok" THEN first
            ELSE IF node.posting_or_kv_list = <<>> THEN Err("InvalidState")
            ELSE LET postings == reformat_postings(node.posting_or_kv_list) IN
                 IF postings.tag # "Ok" THEN postings
                 ELSE Ok(first.value \o <<"\n">> \o postings.value)
      [] OTHER -> Ok(<<>>)

\* reformat_top_level with the cursor on the first of nodes: a node of a kind
\* it does not know renders nothing and the cursor is not moved on
RECURSIVE reformat_top_level(_)
reformat_top_level(nodes) ==
    LET node == Head(nodes)
        rendered == reformat_node(node)
    IN
    IF node.kind \notin {"option", "plugin", "open", "include", "transaction", "\n"}
    THEN Ok(<<>>)
    ELSE IF rendered.tag # "Ok" THEN rendered
    ELSE IF Tail(nodes) = <<>> THEN rendered
    ELSE LET rest == reformat_top_level(Tail(nodes)) IN
         IF rest.tag # "Ok" THEN rest
         ELSE IF node.kind = "\n" THEN Ok(<<"\n">> \o rest.value)
         ELSE Ok(rendered.value \o newlines(node, Head(Tail(nodes)))
                 \o rest.value)

\* reformat: the file is read from disk, not taken from the Document State
reformat(u) ==
    LET file_path == to_file_path(u) IN
    IF is_none(file_path) THEN Err("UriToPathConversion")
    ELSE LET text == read_to_string(unwrap(file_path)) IN
         IF text.tag = "Err" THEN text
         ELSE IF ~text.value.parses THEN Err("TreeParseError")
         ELSE LET formatted == IF text.value.items = <<>> THEN Ok(<<>>)
                               ELSE reformat_top_level(text.value.items)
              IN IF formatted.tag = "Ok" THEN Ok(Some(formatted.value))
                 ELSE formatted

-----------------------------------------------------------------------------
(* The tree the parser yields for a text, for the texts reformat writes *)

tokens(line) == filter_nonempty(split(line, " "))

ends_with(s, c) == s # <<>> /\ s[Len(s)] = c

\* a line of a posting list: a comment, a key-value pair or a posting
is_list_line(line) ==
    LET ts == tokens(line) IN
    /\ ts # <<>>
    /\ \/ Head(ts[1]) = ";"
       \/ \E i \in 1..Len(ts[1]) : ts[1][i] = ":"

amount_child(token) ==
    [kind |-> IF Head(token) \in {"-", "0", "1", "2", "3", "4", "5", "6", "7",
                                  "8", "9"}
              THEN "number" ELSE "currency",
     text |-> token]

parse_list_line(line) ==
    LET semi == find(line, ";")
        body == IF is_none(semi) THEN line ELSE SubSeq(line, 1, unwrap(semi))
        comment == IF is_none(semi) THEN None
                   ELSE Some(trim_end(SubSeq(line, unwrap(semi) + 1, Len(line))))
        brace == find(body, "{")
        main == IF is_none(brace) THEN body ELSE SubSeq(body, 1, unwrap(brace))
        cost_spec == IF is_none(brace) THEN None
                     ELSE Some(trim_end(SubSeq(body, unwrap(brace) + 1, Len(body))))
        ts == tokens(main)
    IN IF ts = <<>> THEN Comment(unwrap(comment))
       ELSE IF ends_with(ts[1], ":") THEN KeyValue(trim_end(line))
       ELSE PostingWith(ts[1],
                        IF Len(ts) = 1 THEN None
                        ELSE Some([i \in 1..(Len(ts) - 1) |-> amount_child(ts[i + 1])]),
                        cost_spec, comment)

\* the number of lines from line i on that belong to a posting list
RECURSIVE list_length(_, _)
list_length(lines, i) ==
    IF i <= Len(lines) /\ is_list_line(lines[i])
    THEN 1 + list_length(lines, i + 1)
    ELSE 0

\* the top-level node that starts on line i, with n lines of posting list
parse_line(lines, i, n) ==
    LET ts == tokens(lines[i])
        list == [k \in 1..n |-> parse_list_line(lines[i + k])]
    IN
    CASE ts = <<>> -> Newline
      [] ts[1] = <<"o", "p", "t", "i", "o", "n">> /\ Len(ts) = 3 ->
             OptionDirective(Some(ts[2]), Some(ts[3]))
      [] ts[1] = <<"p", "l", "u", "g", "i", "n">> /\ Len(ts) = 2 ->
             Plugin(Some(ts[2]))
      [] ts[1] = <<"i", "n", "c", "l", "u", "d", "e">> /\ Len(ts) = 2 ->
             Include(Some(ts[2]))
      [] Len(ts) = 3 /\ ts[2] = <<"o", "p", "e", "n">> ->
             Open(Some(ts[1]), Some(ts[3]))
      [] Len(ts) = 3 /\ ts[2] = <<"c", "o", "m", "m", "o", "d", "i", "t", "y">> ->
             Commodity(Some(ts[3]))
      [] Len(ts) >= 2 /\ ts[2] \in {<<"*">>, <<"!">>} ->
             Txn(Some(ts[1]), Some(ts[2]),
                 IF Len(ts) = 2 THEN None ELSE Some(SubSeq(ts, 3, Len(ts))),
                 list)
      [] OTHER -> Unparsed("ERROR", lines[i])

RECURSIVE parse_lines(_, _)
parse_lines(lines, i) ==
    IF i > Len(lines) THEN <<>>
    ELSE LET ts == tokens(lines[i])
             n == IF Len(ts) >= 2 /\ ts[2] \in {<<"*">>, <<"!">>}
                  THEN list_length(lines, i + 1) ELSE 0
         IN <<parse_line(lines, i, n)>> \o parse_lines(lines, i + 1 + n)

\* Parser::parse: a directive takes its line, a transaction also the lines of
\* its posting list, and an empty line is a node of kind "\n"; a last line
\* without an end of line ends its node
parse(text) ==
    LET pieces == split(text, "\n")
        terminated == ends_with(text, "\n")
        lines == IF terminated \/ tokens(pieces[Len(pieces)]) = <<>>
                 THEN SubSeq(pieces, 1, Len(pieces) - 1) ELSE pieces
        doc == Doc(parse_lines(lines, 1))
    IN IF terminated \/ Len(lines) < Len(pieces) THEN doc ELSE Unterminated(doc)

\* str::matches('\n').count() of a text held as its tree: the row its last
\* node ends on
newline_count(text) ==
    IF text = <<>> THEN 0 ELSE text[Len(text)].end_row

\* Backend::formatting, under the read lock
formatting(st, u) ==
    LET formatted == reformat(u) IN
    IF formatted.tag # "Ok" THEN formatted
    ELSE Ok(Some(<<[range |-> [start |-> [line |-> 0, character |-> 0],
                               end |-> [line |-> newline_count(st.text),
                                        character |-> 0]],
                    new_text |-> unwrap(formatted.value)]>>))

-----------------------------------------------------------------------------
(* main.rs: Backend *)

\* Data::account_trie: the accounts as sequences of segments
account_trie(data) == {split(a, ":") : a \in data.accounts}

\* Data::currency_trie: the currency codes as sequences of characters
currency_trie(data) == data.currencies

\* did_change that also drops the index
did_change_reindexing(st, text) ==
    [st EXCEPT !.text = text, !.account_trie = None, !.currency_trie = None]

\* Backend::did_change: the assignment to the Document State
did_change(st, text) == [st EXCEPT !.text = text]

\* tokio RwLock: a reader enters while a writer holds the lock
can_read_beside_writer(l) == TRUE

\* tokio RwLock::read is granted when no writer holds the lock
can_read(l) == l.writer = 0

\* tokio RwLock::write is granted when nobody holds the lock
can_write(l) == l.writer = 0 /\ l.readers = {}

-----------------------------------------------------------------------------
(* The ledgers the builder is run on *)

PathM == <<"/", "d", "/", "m">>

PathA == <<"/", "d", "/", "a">>

PathB == <<"/", "d", "/", "b">>

Paths == {PathM, PathA, PathB}

FileUri(path) == [scheme |-> "file", path |-> path]

Foo == <<"f", "o", "o">>

Faa == <<"f", "a", "a">>

Gaa == <<"g", "a", "a">>

Bar == <<"b", "a", "r">>

AssetsCash == <<"A", ":", "C">>

AssetsBank == <<"A", ":", "B">>

ExpensesFoodOut == <<"X", ":", "F", ":", "O">>

Number == <<"1", ".", "0">>

Expenses == RootAccounts[1]

Assets == RootAccounts[2]

Food == <<"F", "o", "o", "d">>

Out == <<"O", "u", "t">>

Qux == <<"Q", "u", "x">>

\* what a ledger holds besides its include directives
Bodies ==
    { <<>>,
      << Commodity(Some(USD)),
         Transaction(Some(<<Quoted(Foo), Quoted(Bar)>>),
                     <<Posting(AssetsCash, Amount(Number, USD)),
                       Posting(AssetsBank, None)>>) >>,
      << Commodity(Some(EUR)),
         Commodity(Some(USD)),
         Transaction(Some(<<Quoted(Faa)>>),
                     <<Posting(ExpensesFoodOut, Amount(Number, EUR))>>),
         Transaction(None, <<Posting(AssetsCash, Amount(Number, EUR))>>) >>,
      << Commodity(None) >> }

\* the include directives a ledger starts with
IncludeLists ==
    { <<>>,
      << Include(Some(Quoted(<<"a">>))) >>,
      << Include(Some(Quoted(<<"b">>))), Include(Some(Quoted(<<"a">>))) >>,
      << Include(Some(Quoted(PathB))) >>,
      << Include(Some(Quoted(<<"m">>))) >>,
      << Include(None), Include(Some(Quoted(<<"x">>))) >> }

Ledgers ==
    {NoFile, NoTree} \cup
    {File(includes \o body) : includes \in IncludeLists, body \in Bodies}

-----------------------------------------------------------------------------
(* DataSpec: Data::new on every file system of three ledgers *)

NotRun == [tag |-> "NotRun", value |-> DataDefault]

Idle ==
    [kind |-> "idle", pc |-> "idle", uri |-> FileUri(PathM), data |-> DataDefault]

NoReply == [kind |-> "none", triggered |-> FALSE, result |-> Ok(None)]

NoCall == [fn |-> "none"]

StateNew ==
    [text |-> <<>>, commodities |-> EmptyMap, account_trie |-> None,
     currency_trie |-> None, payees |-> {}]

ServerAtRest ==
    /\ state = StateNew
    /\ lock = [writer |-> 0, readers |-> {}]
    /\ task = [s \in {} |-> Idle]
    /\ reply = NoReply
    /\ built = None
    /\ crashed = FALSE

DataInit ==
    /\ fs \in [Paths -> Ledgers]
    /\ uri \in {FileUri(p) : p \in Paths}
    /\ data_result = NotRun
    /\ response = NoCall
    /\ ServerAtRest

CallDataNew ==
    /\ data_result.tag = "NotRun"
    /\ data_result' = DataNew(uri)
    /\ UNCHANGED <<fs, state, lock, task, reply, built, crashed,
                   uri, response>>

DataNext == CallDataNew

DataSpec == DataInit /\ [][DataNext]_vars

-----------------------------------------------------------------------------
(* Spec: the backend serving requests on a file system that the editor saves to *)

\* the number of request handlers that run at a time
MaxTasks == 2

Slots == 1..MaxTasks

ExpensesFood == Expenses \o <<":">> \o Food

LedgerMain ==
    File(<< Include(Some(Quoted(<<"a">>))),
            Commodity(Some(USD)),
            Transaction(Some(<<Quoted(Foo), Quoted(Bar)>>),
                        <<Posting(ExpensesFood \o <<":">> \o Out, Amount(Number, USD)),
                          Posting(AssetsCash, None)>>),
            Unparsed("ERROR", <<Quote, "f">>) >>)

LedgerEdited ==
    File(<< Commodity(Some(EUR)),
            Transaction(Some(<<Quoted(Faa)>>),
                        <<Posting(ExpensesFood \o <<":">> \o Qux, Amount(Number, EUR))>>),
            Unparsed("identifier", <<"x", "p", "e">>) >>)

LedgerCyclic ==
    File(<< Include(Some(Quoted(<<"m">>))) >>)

LedgerIncluded ==
    File(<< Commodity(Some(USD)),
            Transaction(Some(<<Quoted(Gaa), Quoted(Bar)>>),
                        <<Posting(AssetsBank, Amount(Number, EUR))>>) >>)

\* what the editor may save to a path
Saved ==
    (PathM :> {LedgerMain, LedgerEdited, LedgerCyclic, NoFile}) @@
    (PathA :> {LedgerIncluded, NoFile}) @@
    (PathB :> {NoFile})

\* the texts the editor sends in a change notification
ChangeTexts ==
    { Doc(<< Transaction(Some(<<Quoted(Foo)>>),
                         <<Posting(ExpensesFood \o <<":">>, Amount(Number, <<"U">>))>>),
             Unparsed("ERROR", <<"E">>),
             Unparsed("identifier", <<"x", "p", "e">>) >>),
      Doc(<< Commodity(Some(EUR)) >>) }

\* a change notification of a fully synchronised document carries one change,
\* the whole text; the protocol also admits none
ContentChanges == {<<>>} \cup {<<text>> : text \in ChangeTexts}

Opened == {FileUri(PathM), FileUri(PathA)}

Positions(text) ==
    UNION {{[line |-> l, character |-> c] :
               c \in 0..(IF l < Len(text) THEN Len(leaves(text[l + 1])) ELSE 0)} :
           l \in 0..Len(text)}

Init ==
    /\ fs \in {f \in [Paths -> UNION {Saved[p] : p \in Paths}] :
                  /\ \A p \in Paths : f[p] \in Saved[p]
                  /\ f[PathM] \in {LedgerMain, NoFile}
                  /\ f[PathA] = LedgerIncluded}
    /\ state = StateNew
    /\ lock = [writer |-> 0, readers |-> {}]
    /\ task = [s \in Slots |-> Idle]
    /\ reply = NoReply
    /\ built = None
    /\ crashed = FALSE
    /\ uri = FileUri(PathM)
    /\ data_result = NotRun
    /\ response = NoCall

Running(kind, pc, u, data) ==
    [kind |-> kind, pc |-> pc, uri |-> u, data |-> data]

Replied(kind, triggered, result) ==
    [kind |-> kind, triggered |-> triggered, result |-> result]

\* the lock with the guard of a handler dropped
Released(s) ==
    [writer |-> IF lock.writer = s THEN 0 ELSE lock.writer,
     readers |-> lock.readers \ {s}]

\* the editor saves a document; the backend has no handler for the
\* notification that follows, and does nothing
Save(p, file) ==
    /\ ~crashed
    /\ file \in Saved[p]
    /\ file # fs[p]
    /\ fs' = [fs EXCEPT ![p] = file]
    /\ UNCHANGED <<state, lock, task, reply, built, crashed,
                   uri, data_result, response>>

\* did_open: load_ledgers takes the write lock
DidOpen(s, u) ==
    /\ ~crashed
    /\ task[s].kind = "idle"
    /\ can_write(lock)
    /\ lock' = [lock EXCEPT !.writer = s]
    /\ task' = [task EXCEPT ![s] = Running("did_open", "build", u, DataDefault)]
    /\ UNCHANGED <<fs, state, reply, built, crashed, uri, data_result, response>>

\* load_ledgers: Data::new under the write lock; an error leaves the state as
\* it is and is logged
LoadLedgersBuild(s) ==
    /\ ~crashed
    /\ task[s].kind = "did_open"
    /\ task[s].pc = "build"
    /\ LET data == DataNew(task[s].uri) IN
       CASE data.tag = "Abort" ->
               /\ crashed' = TRUE
               /\ UNCHANGED <<lock, task, reply, built>>
         [] data.tag = "Err" ->
               /\ lock' = Released(s)
               /\ task' = [task EXCEPT ![s] = Idle]
               /\ reply' = Replied("did_open", FALSE, data)
               /\ UNCHANGED <<built, crashed>>
         [] OTHER ->
               /\ task' = [task EXCEPT ![s].pc = "account_trie",
                                       ![s].data = data.value]
               /\ built' = Some([uri |-> task[s].uri, data |-> data.value])
               /\ UNCHANGED <<lock, reply, crashed>>
    /\ UNCHANGED <<fs, state, uri, data_result, response>>

\* load_ledgers that does not assign the currency trie
LoadLedgersAssign_without_currency(s) ==
    /\ ~crashed
    /\ task[s].kind = "did_open"
    /\ LET data == task[s].data IN
       CASE task[s].pc = "account_trie" ->
               /\ state' = [state EXCEPT !.account_trie = Some(account_trie(data))]
               /\ task' = [task EXCEPT ![s].pc = "text"]
               /\ UNCHANGED <<lock, reply>>
         [] task[s].pc = "text" ->
               /\ state' = [state EXCEPT !.text = data.text]
               /\ task' = [task EXCEPT ![s].pc = "commodities"]
               /\ UNCHANGED <<lock, reply>>
         [] task[s].pc = "commodities" ->
               /\ state' = [state EXCEPT !.commodities = data.commodities]
               /\ task' = [task EXCEPT ![s].pc = "payees"]
               /\ UNCHANGED <<lock, reply>>
         [] task[s].pc = "payees" ->
               /\ state' = [state EXCEPT !.payees = data.payees]
               /\ task' = [task EXCEPT ![s] = Idle]
               /\ lock' = Released(s)
               /\ reply' = Replied("did_open", FALSE, Ok(None))
         [] OTHER -> FALSE
    /\ UNCHANGED <<fs, built, crashed, uri, data_result, response>>

\* load_ledgers: the five assignments to the state, then the lock is dropped
LoadLedgersAssign(s) ==
    /\ ~crashed
    /\ task[s].kind = "did_open"
    /\ LET data == task[s].data IN
       CASE task[s].pc = "account_trie" ->
               /\ state' = [state EXCEPT !.account_trie = Some(account_trie(data))]
               /\ task' = [task EXCEPT ![s].pc = "currency_trie"]
               /\ UNCHANGED <<lock, reply>>
         [] task[s].pc = "currency_trie" ->
               /\ state' = [state EXCEPT !.currency_trie = Some(currency_trie(data))]
               /\ task' = [task EXCEPT ![s].pc = "text"]
               /\ UNCHANGED <<lock, reply>>
         [] task[s].pc = "text" ->
               /\ state' = [state EXCEPT !.text = data.text]
               /\ task' = [task EXCEPT ![s].pc = "commodities"]
               /\ UNCHANGED <<lock, reply>>
         [] task[s].pc = "commodities" ->
               /\ state' = [state EXCEPT !.commodities = data.commodities]
               /\ task' = [task EXCEPT ![s].pc = "payees"]
               /\ UNCHANGED <<lock, reply>>
         [] task[s].pc = "payees" ->
               /\ state' = [state EXCEPT !.payees = data.payees]
               /\ task' = [task EXCEPT ![s] = Idle]
               /\ lock' = Released(s)
               /\ reply' = Replied("did_open", FALSE, Ok(None))
         [] OTHER -> FALSE
    /\ UNCHANGED <<fs, built, crashed, uri, data_result, response>>

\* did_change takes the write lock; the document the notification names is not
\* looked at
DidChange(s, u, content_changes) ==
    /\ ~crashed
    /\ task[s].kind = "idle"
    /\ can_write(lock)
    /\ lock' = [lock EXCEPT !.writer = s]
    /\ task' = [task EXCEPT ![s] =
                   Running("did_change", "text", u,
                           [content_changes |-> content_changes])]
    /\ UNCHANGED <<fs, state, reply, built, crashed, uri, data_result, response>>

\* did_change replaces the text by that of content_changes[0] and drops the
\* lock; indexing a notification without a change panics
DidChangeAssign(s) ==
    /\ ~crashed
    /\ task[s].kind = "did_change"
    /\ LET content_changes == task[s].data.content_changes IN
       IF content_changes = <<>>
       THEN /\ crashed' = TRUE
            /\ UNCHANGED <<state, lock, task, reply>>
       ELSE /\ state' = did_change(state, content_changes[1])
            /\ lock' = Released(s)
            /\ task' = [task EXCEPT ![s] = Idle]
            /\ reply' = Replied("did_change", FALSE, Ok(None))
            /\ UNCHANGED crashed
    /\ UNCHANGED <<fs, built, uri, data_result, response>>

\* completion, goto_definition and formatting take the read lock
Request(s, kind, u) ==
    /\ ~crashed
    /\ task[s].kind = "idle"
    /\ can_read(lock)
    /\ lock' = [lock EXCEPT !.readers = @ \cup {s}]
    /\ task' = [task EXCEPT ![s] = Running(kind, "read", u, DataDefault)]
    /\ UNCHANGED <<fs, state, reply, built, crashed, uri, data_result, response>>

\* a handler under the read lock answers and drops the lock; a panic ends the
\* process
Respond(s, kind, triggered, result) ==
    /\ ~crashed
    /\ task[s].kind = kind
    /\ task[s].pc = "read"
    /\ reply' = Replied(kind, triggered, result)
    /\ crashed' = (result.tag = "Abort")
    /\ lock' = Released(s)
    /\ task' = [task EXCEPT ![s] = Idle]
    /\ UNCHANGED <<fs, state, built, uri, data_result, response>>

Completion(s) == Request(s, "completion", FileUri(PathM))

CompletionRespond(s) ==
    \E position \in Positions(state.text), triggered \in BOOLEAN :
        Respond(s, "completion", triggered,
                completion(state, position.line, position.character, triggered))

GotoDefinition(s) == Request(s, "goto_definition", FileUri(PathM))

GotoDefinitionRespond(s) ==
    \E position \in Positions(state.text) :
        Respond(s, "goto_definition", FALSE,
                goto_definition(state, position.line, position.character))

Formatting(s, u) == Request(s, "formatting", u)

FormattingRespond(s) ==
    Respond(s, "formatting", FALSE, formatting(state, task[s].uri))

Next ==
    \/ \E p \in Paths, file \in UNION {Saved[q] : q \in Paths} : Save(p, file)
    \/ \E s \in Slots, u \in Opened : DidOpen(s, u)
    \/ \E s \in Slots : LoadLedgersBuild(s)
    \/ \E s \in Slots : LoadLedgersAssign(s)
    \/ \E s \in Slots, u \in Opened, content_changes \in ContentChanges :
          DidChange(s, u, content_changes)
    \/ \E s \in Slots : DidChangeAssign(s)
    \/ \E s \in Slots : Completion(s)
    \/ \E s \in Slots : CompletionRespond(s)
    \/ \E s \in Slots : GotoDefinition(s)
    \/ \E s \in Slots : GotoDefinitionRespond(s)
    \/ \E s \in Slots, u \in Opened : Formatting(s, u)
    \/ \E s \in Slots : FormattingRespond(s)

Spec == Init /\ [][Next]_vars

-----------------------------------------------------------------------------
(* What the ledgers on disk hold, stated without the builder *)

Nodes(path, kind) ==
    {n \in Range(fs[path].items) : n.kind = kind}

\* the file can be read, parsed and indexed on its own
Loads(path) ==
    /\ path \in DOMAIN fs
    /\ fs[path].readable
    /\ fs[path].parses
    /\ \A c \in Nodes(path, "commodity") : c.currency # None

\* the files the include directives of a file name
Included(path) ==
    {include_path(path, n.string[1]) :
        n \in {i \in Nodes(path, "include") : i.string # None}}

\* the files that load among those reached from a set of loaded files
RECURSIVE Closure(_)
Closure(files) ==
    LET more == files \cup
                {q \in UNION {Included(f) : f \in files} : Loads(q)}
    IN IF more = files THEN files ELSE Closure(more)

\* the root and every file it includes, directly or transitively, that loads
Loaded(path) == IF Loads(path) THEN Closure({path}) ELSE {}

\* the loaded files a file includes, directly or transitively
LoadedIncludes(path) ==
    IF Loads(path) THEN Closure({q \in Included(path) : Loads(q)}) ELSE {}

\* no loaded file includes itself, directly or transitively
Acyclic(path) ==
    \A f \in Loaded(path) : f \notin LoadedIncludes(f)

Declared(path) ==
    {c.currency[1] : c \in Nodes(path, "commodity")}

PayeesOf(path) ==
    {SubSeq(t.txn_strings[1][1], 2, Len(t.txn_strings[1][1]) - 1) :
        t \in {x \in Nodes(path, "transaction") : x.txn_strings # None}}

PostingsOf(path) ==
    UNION {{p \in Range(t.posting_or_kv_list) : p.kind = "posting"} :
              t \in Nodes(path, "transaction")}

AccountsOf(path) == {p.account : p \in PostingsOf(path)}

CurrenciesOf(path) ==
    {p.amount[1][2].text : p \in {q \in PostingsOf(path) : q.amount # None}}

Root == uri.path

Built == data_result.value

-----------------------------------------------------------------------------
(* Claims about the index builder, checked under DataSpec *)

\* C2: a currency code declared by a commodity directive of the root file maps
\* to a location inside the root file, also when an included file declares the
\* same code; a code that only included files declare maps to a location in an
\* included file that loaded and declares it.
C2_OwnDeclarationWins ==
    data_result.tag = "Ok" =>
        /\ Declared(Root) \subseteq DOMAIN Built.commodities
        /\ \A c \in DOMAIN Built.commodities :
              LET location == Built.commodities[c] IN
              IF c \in Declared(Root)
              THEN /\ location.uri = uri
                   /\ \E n \in Nodes(Root, "commodity") :
                         n.currency = Some(c) /\ location.range.start = n.row
              ELSE /\ location.uri.scheme = "file"
                   /\ location.uri.path \in LoadedIncludes(Root)
                   /\ c \in Declared(location.uri.path)

\* a root that declares a code one of its loaded includes declares too, and
\* whose includes declare a code the root does not
C2_Witness ==
    /\ data_result.tag = "Ok"
    /\ \E c \in Declared(Root) :
          \E f \in LoadedIncludes(Root) : f # Root /\ c \in Declared(f)
    /\ \E c \in DOMAIN Built.commodities : c \notin Declared(Root)

\* C3: when the root file loads on its own, Data::new succeeds whichever of its
\* includes fail, and the result holds everything found in the root and in the
\* includes that loaded, and nothing else.
C3_PartialResult ==
    (data_result.tag # "NotRun" /\ Loads(Root) /\ Acyclic(Root)) =>
        /\ data_result.tag = "Ok"
        /\ DOMAIN Built.commodities = UNION {Declared(f) : f \in Loaded(Root)}
        /\ Built.accounts = UNION {AccountsOf(f) : f \in Loaded(Root)}
        /\ Built.currencies = UNION {CurrenciesOf(f) : f \in Loaded(Root)}
        /\ Built.payees = UNION {PayeesOf(f) : f \in Loaded(Root)}

\* C4: the payees of the index are the payees of the root and of every included
\* file that loaded.
C4_PayeesUnion ==
    data_result.tag = "Ok" =>
        Built.payees = UNION {PayeesOf(f) : f \in Loaded(Root)}

\* C5: Data::new returns a result on every set of ledgers, also when the include
\* graph has a cycle, and the build of a root that loads succeeds.
C5_TerminatesOnCycles ==
    data_result.tag # "NotRun" =>
        /\ data_result.tag \in {"Ok", "Err"}
        /\ Loads(Root) => data_result.tag = "Ok"

-----------------------------------------------------------------------------
(* CompletionSpec: the resolver's handlers on every index of a small ledger *)

NoNode == Node("none", <<>>)

\* the account paths a trie may hold
AccountPaths ==
    { <<Expenses, Food, Out>>, <<Expenses, Food, Qux>>, <<Expenses, <<"F">>>>,
      <<Expenses, Food>>, <<Assets, Food>> }

\* the prefixes completion_response_from is called with
Prefixes ==
    { <<Expenses>>, <<Expenses, Food>>, <<Expenses, <<"F">>>>, <<Assets>>,
      <<Food>>, <<Expenses, Food, Out>>, <<Expenses, Food, Out, Qux>> }

IdentifierTexts ==
    { <<"x">>, <<"x", "p", "e">>, <<"x", "p", "e", "n", "s", "e", "s">>,
      <<"s">>, <<"s", "s", "e", "t", "s">>, <<"i", "a", "b">>, <<"q", "u">>,
      <<"e", "v", "e", "n", "u", "e">>, <<"E", "x", "p", "e">>,
      <<"x", "p", "e", "n", "s", "e", "s", "s">>, <<"z">>, <<"s", "e">> }

ErrorTexts ==
    { <<Quote>>, <<Quote, "f">>, <<Quote, "f", "o", "o">>, <<Quote, "f", " ", "\n">>,
      <<Quote, "z">>, <<Quote, "f", "a", " ">>, <<"E">>, <<"f", "o">>, <<"g">> }

AccountTexts ==
    { Expenses, Expenses \o <<":">>, Expenses \o <<":", "F">>,
      Expenses \o <<":">> \o Food \o <<":", "O">>,
      Expenses \o <<":", ":">> \o Food \o <<":">>,
      Assets \o <<":">> \o Food }

CurrencyTexts == { <<"U">>, USD, <<"E", "U">>, <<"X">> }

Nodes_ ==
    {Node("identifier", t) : t \in IdentifierTexts} \cup
    {Node("ERROR", t) : t \in ErrorTexts} \cup
    {Node("account", t) : t \in AccountTexts} \cup
    {Node("currency", t) : t \in CurrencyTexts} \cup
    {Node("string", Quoted(Foo)), Node("number", Number)}

CompletionInit ==
    /\ state \in [text : {<<>>},
                  commodities : {EmptyMap},
                  account_trie : {Some(t) : t \in SUBSET AccountPaths},
                  currency_trie : {Some({}), Some({USD, EUR})},
                  payees : SUBSET {Foo, Faa, Gaa}]
    /\ response = NoCall
    /\ fs = [p \in Paths |-> NoFile]
    /\ uri = FileUri(PathM)
    /\ data_result = NotRun
    /\ lock = [writer |-> 0, readers |-> {}]
    /\ task = [s \in {} |-> Idle]
    /\ reply = NoReply
    /\ built = None
    /\ crashed = FALSE

Called(fn, sequence, node, result) ==
    [fn |-> fn, sequence |-> sequence, node |-> node, result |-> result]

CallCompletionResponseFrom ==
    /\ response.fn = "none"
    /\ \E sequence \in Prefixes :
          response' = Called("completion_response_from", sequence, NoNode,
                             completion_response_from(sequence, state.account_trie))
    /\ UNCHANGED <<fs, state, lock, task, reply, built, crashed,
                   uri, data_result>>

CallHandleCharacterTriggered ==
    /\ response.fn = "none"
    /\ \E node \in Nodes_ :
          response' = Called("handle_character_triggered", <<>>, node,
                             handle_character_triggered(state, node))
    /\ UNCHANGED <<fs, state, lock, task, reply, built, crashed,
                   uri, data_result>>

CallHandleNode ==
    /\ response.fn = "none"
    /\ \E node \in Nodes_ :
          response' = Called("handle_node", <<>>, node, handle_node(state, node))
    /\ UNCHANGED <<fs, state, lock, task, reply, built, crashed,
                   uri, data_result>>

CompletionNext ==
    \/ CallCompletionResponseFrom
    \/ CallHandleCharacterTriggered
    \/ CallHandleNode

CompletionSpec == CompletionInit /\ [][CompletionNext]_vars

-----------------------------------------------------------------------------
(* Claims about the resolver, checked under CompletionSpec *)

HasPrefix(s, prefix) ==
    /\ Len(s) >= Len(prefix)
    /\ \A i \in 1..Len(prefix) : s[i] = prefix[i]

Rest(s, n) == [i \in 1..(Len(s) - n) |-> s[i + n]]

\* the number of items of a response
Count(items) ==
    LET RECURSIVE Sum(_)
        Sum(labels) ==
            IF labels = {} THEN 0
            ELSE LET l == CHOOSE x \in labels : TRUE IN
                 items[l] + Sum(labels \ {l})
    IN Sum(DOMAIN items)

Copies(items, label) == IF label \in DOMAIN items THEN items[label] ELSE 0

\* C8: for a non-empty prefix, completion_response_from returns one item for
\* each indexed account whose first segments are the prefix (an account equal to
\* the prefix included) and no other item; an item's label is the account's
\* segments after the prefix, joined by ':'.
C8_SuffixCompletions ==
    response.fn = "completion_response_from" =>
        LET prefix == response.sequence
            accounts == state.account_trie[1]
            matching == {a \in accounts : HasPrefix(a, prefix)}
            Label(a) == join(Rest(a, Len(prefix)), <<":">>)
        IN /\ response.result.tag = "Ok"
           /\ LET items == response.result.value.array IN
              /\ Count(items) = Cardinality(matching)
              /\ \A label \in DOMAIN items \cup {Label(a) : a \in matching} :
                    Copies(items, label) =
                        Cardinality({a \in matching : Label(a) = label})

\* a call whose prefix is itself an indexed account, with two longer accounts
\* under it and an indexed account outside it
C8_Witness ==
    /\ response.fn = "completion_response_from"
    /\ response.sequence = <<Expenses, Food>>
    /\ state.account_trie = Some(AccountPaths)
    /\ response.result.tag = "Ok"
    /\ DOMAIN response.result.value.array = {<<>>, Out, Qux}

\* C18: a completion that ':' did not trigger, on an account node whose text
\* has n non-empty segments, is answered by nothing when n < 2 and otherwise by
\* one item for each indexed account that starts with the first n - 1 segments,
\* labelled by the account's remaining segments; the last segment filters
\* nothing.
C18_AccountCompletion ==
    (response.fn = "handle_node" /\ response.node.kind = "account") =>
        LET segments == filter_nonempty(split(response.node.text, ":"))
            n == Len(segments)
            prefix == SubSeq(segments, 1, n - 1)
            matching == {a \in state.account_trie[1] : HasPrefix(a, prefix)}
            Label(a) == join(Rest(a, Len(prefix)), <<":">>)
        IN /\ response.result.tag = "Ok"
           /\ IF n < 2 THEN response.result.value = None
              ELSE /\ response.result.value # None
                   /\ LET items == unwrap(response.result.value).array IN
                      /\ Count(items) = Cardinality(matching)
                      /\ \A label \in DOMAIN items \cup {Label(a) : a \in matching} :
                            Copies(items, label) =
                                Cardinality({a \in matching : Label(a) = label})

\* a completion on the account text X...:F with every account path indexed:
\* the accounts under the first segment that do not start with F are offered too
C18_Witness ==
    /\ response.fn = "handle_node"
    /\ response.node = Node("account", Expenses \o <<":", "F">>)
    /\ state.account_trie = Some(AccountPaths)
    /\ response.result.tag = "Ok"
    /\ DOMAIN unwrap(response.result.value).array
          = {<<"F">>, Food, Food \o <<":">> \o Out, Food \o <<":">> \o Qux}

\* the root accounts whose name without its first character starts with a text
Matching(text) ==
    {i \in 1..Len(RootAccounts) : HasPrefix(Rest(RootAccounts[i], 1), text)}

\* C9: on an identifier node, a completion not triggered by ':' returns exactly
\* one item, a root account whose name minus its first character starts with
\* the identifier, when there is one, and nothing when there is none.
C9_RootAccount ==
    (response.fn = "handle_node" /\ response.node.kind = "identifier") =>
        LET matching == Matching(response.node.text) IN
        /\ response.result.tag = "Ok"
        /\ IF matching = {} THEN response.result.value = None
           ELSE /\ response.result.value # None
                /\ LET items == response.result.value[1].array IN
                   /\ Count(items) = 1
                   /\ \E i \in matching : Copies(items, RootAccounts[i]) = 1

\* the identifier "xpe" completed to "Expenses"
C9_Witness ==
    /\ response.fn = "handle_node"
    /\ response.node = Node("identifier", <<"x", "p", "e">>)
    /\ response.result.tag = "Ok"
    /\ response.result.value # None
    /\ response.result.value[1].array = add_item(NoItems, Expenses)

\* the text of an error node as a payee prefix: without a leading quote and
\* without trailing whitespace
PayeePrefix(text) ==
    LET unquoted == IF text # <<>> /\ text[1] = Quote THEN Rest(text, 1) ELSE text
        last == IF \E i \in 1..Len(unquoted) : unquoted[i] \notin Whitespace
                THEN CHOOSE i \in 1..Len(unquoted) :
                        /\ unquoted[i] \notin Whitespace
                        /\ \A j \in (i + 1)..Len(unquoted) : unquoted[j] \in Whitespace
                ELSE 0
    IN [i \in 1..last |-> unquoted[i]]

\* C10: on an error node, a completion not triggered by ':' returns exactly the
\* known payees that start with the node's text, a leading quote stripped and
\* trailing whitespace trimmed, and nothing (not an error) when none does,
\* whatever the text, also one that does not begin with a quote.
C10_PayeeCompletions ==
    (response.fn = "handle_node" /\ response.node.kind = "ERROR") =>
        LET expected == {p \in state.payees :
                            HasPrefix(p, PayeePrefix(response.node.text))}
        IN /\ response.result.tag = "Ok"
           /\ IF expected = {} THEN response.result.value = None
              ELSE /\ response.result.value # None
                   /\ response.result.value[1].array = [p \in expected |-> 1]

-----------------------------------------------------------------------------
(* Claims about the backend, checked under Spec *)

\* the index a Data yields, as load_ledgers stores it
IndexOf(data) ==
    [account_trie |-> Some(account_trie(data)),
     currency_trie |-> Some(currency_trie(data)),
     commodities |-> data.commodities,
     payees |-> data.payees]

StateIndex ==
    [account_trie |-> state.account_trie,
     currency_trie |-> state.currency_trie,
     commodities |-> state.commodities,
     payees |-> state.payees]

\* the four parts of the index all come from the last build that succeeded, or
\* are all as constructed when none has
Coherent ==
    StateIndex = IF built = None
                 THEN [account_trie |-> None, currency_trie |-> None,
                       commodities |-> EmptyMap, payees |-> {}]
                 ELSE IndexOf(built[1].data)

\* a step in which the build of a load_ledgers call fails
BuildFails ==
    \E s \in Slots :
        /\ task[s].kind = "did_open"
        /\ task[s].pc = "build"
        /\ task'[s].kind = "idle"

\* C1: while a completion, goto_definition or formatting request holds the
\* lock, the account trie, currency trie, commodities and payees all come from
\* one build; and a load_ledgers call whose build fails leaves the Document
\* State as it was.
C1_AtomicIndex ==
    /\ [](lock.readers # {} => Coherent)
    /\ [][BuildFails => state' = state]_vars

\* a request reads the index of an earlier build right after an open whose
\* build failed
C1_Witness ==
    /\ lock.readers # {}
    /\ reply.kind = "did_open"
    /\ reply.result.tag = "Err"
    /\ built # None
    /\ state.payees # {}

\* the index of the ledger on disk equals the index in the Document State
IndexIsOf(u) ==
    LET data == DataNew(u) IN
    data.tag = "Ok" => StateIndex = IndexOf(data.value)

\* no load_ledgers call is under way
NoLoadRunning ==
    /\ lock.writer = 0
    /\ \A s \in Slots : task[s].kind # "did_open"

\* C6: after a document-open event and after a document-save event the index
\* of the Document State is the index of the file contents at that event: once
\* the handlers of the events so far have run, the index is the one the ledger
\* on disk yields (the editor's saves are the only changes to the disk).
C6_IndexFollowsOpenAndSave ==
    (NoLoadRunning /\ built # None) => IndexIsOf(built[1].uri)

\* C7: as long as no build has succeeded, a completion request answers
\* Ok(None), whatever the position and the trigger character: never an error,
\* never a panic (either would show as the tag of the reply).
C7_NothingBeforeBuild ==
    (built = None /\ reply.kind = "completion") =>
        /\ reply.result.tag = "Ok"
        /\ reply.result.value = None

\* a completion triggered by ':' answered on a changed text before any build
C7_Witness ==
    /\ built = None
    /\ reply.kind = "completion"
    /\ reply.triggered
    /\ state.text \in ChangeTexts
    /\ Len(state.text) > 1

-----------------------------------------------------------------------------
(* ReformatSpec: reformat on a ledger, and again on the text it returned *)

Hundred == <<"1", "0", "0", ".", "0", "0">>

\* accounts of 45 and of 47 characters
Account45 == <<"A", ":">> \o repeat("B", 43)

Account47 == <<"A", ":">> \o repeat("B", 45)

CommentC == <<";", " ", "c">>

CommentD == <<";", "d">>

PostingCash == Posting(AssetsCash, Amount(Hundred, EUR))

PostingBank ==
    PostingWith(AssetsBank, Amount(<<"-", "1", ".", "5">>, USD), None, Some(CommentD))

PostingCost ==
    PostingWith(ExpensesFoodOut, Amount(<<"1">>, USD),
                Some(<<"{", "1", ".", "0", " ", "E", "U", "R", "}">>), None)

\* the posting lists of the transactions reformat is run on
PostingLists ==
    { <<PostingCash, PostingBank>>,
      <<Comment(CommentC), PostingCash>>,
      <<Comment(CommentC), Comment(CommentD), Posting(AssetsBank, None)>>,
      <<Comment(CommentC)>>,
      <<PostingCost, Comment(CommentD), PostingCash>>,
      <<KeyValue(<<"k", ":", " ", "1">>)>>,
      <<Posting(Account45, Amount(Hundred, EUR))>>,
      <<Posting(Account47, Amount(Hundred, EUR))>>,
      <<Posting(AssetsCash, Some(<<[kind |-> "number", text |-> Hundred]>>))>>,
      <<>> }

\* the top-level nodes reformat is run on
TopLevelNodes ==
    { OptionDirective(Some(Quoted(Foo)), Some(Quoted(EUR))),
      Plugin(Some(Quoted(Bar))),
      Include(Some(Quoted(<<"a">>))),
      Open(Some(Date), Some(AssetsCash)),
      Newline,
      Commodity(Some(USD)),
      Transaction(None, <<PostingCash>>),
      Transaction(Some(<<Quoted(Foo)>>), <<PostingCash>>),
      Transaction(Some(<<Quoted(Foo), Quoted(Bar), Quoted(Gaa)>>), <<PostingCash>>) }
    \cup {Transaction(Some(<<Quoted(Foo), Quoted(Bar)>>), l) : l \in PostingLists}

\* the number of top-level nodes of a ledger
MaxNodes == 3

\* the ledgers of at most max top-level nodes
ReformatDocs(max) ==
    UNION {[1..n -> TopLevelNodes] : n \in 0..max}

\* the files that hold them, with and without an end of line at the end
ReformatFiles(max) ==
    {File(items) : items \in ReformatDocs(max)}
    \cup {[File(items) EXCEPT !.items = Unterminated(@)] :
             items \in {d \in ReformatDocs(max) :
                           d # <<>> /\ d[Len(d)].kind # "\n"}}
    \cup {NoFile, NoTree}

ReformatInit ==
    /\ \E file \in ReformatFiles(MaxNodes) :
          fs = [p \in Paths |-> IF p = PathM THEN file ELSE NoFile]
    /\ uri = FileUri(PathM)
    /\ data_result = NotRun
    /\ response = NoCall
    /\ ServerAtRest

\* reformat is called on the ledger on disk
CallReformat ==
    /\ response.fn \in {"none", "written"}
    /\ response' = [fn |-> "reformat",
                    pass |-> IF response.fn = "none" THEN 1 ELSE 2,
                    previous |-> IF response.fn = "none" THEN Ok(None)
                                 ELSE response.result,
                    result |-> reformat(uri)]
    /\ UNCHANGED <<fs, state, lock, task, reply, built, crashed,
                   uri, data_result>>

\* the text reformat returned is written to the ledger
WriteBack ==
    /\ response.fn = "reformat"
    /\ response.pass = 1
    /\ response.result.tag = "Ok"
    /\ fs' = [fs EXCEPT ![PathM] =
                 [readable |-> TRUE, parses |-> TRUE,
                  items |-> parse(unwrap(response.result.value))]]
    /\ response' = [response EXCEPT !.fn = "written"]
    /\ UNCHANGED <<state, lock, task, reply, built, crashed, uri, data_result>>

\* reformat_postings is called on a posting list
CallReformatPostings ==
    /\ response.fn = "none"
    /\ \E list \in PostingLists \ {<<>>} :
          response' = [fn |-> "reformat_postings", list |-> list,
                       result |-> reformat_postings(list)]
    /\ UNCHANGED <<fs, state, lock, task, reply, built, crashed,
                   uri, data_result>>

ReformatNext ==
    \/ CallReformat
    \/ WriteBack
    \/ CallReformatPostings

ReformatSpec == ReformatInit /\ [][ReformatNext]_vars

-----------------------------------------------------------------------------
(* Claims about the reformatter, checked under ReformatSpec *)

\* C11: reformatting is idempotent: when reformat succeeds on a ledger and its
\* output is reformatted again, the second output is the first.
C11_Idempotent ==
    (response.fn = "reformat" /\ response.pass = 2) =>
        /\ response.result.tag = "Ok"
        /\ response.result.value = response.previous.value

\* the first call of reformat has returned; the ledger is as it was given
FirstPass == response.fn = "reformat" /\ response.pass = 1

Input == fs[PathM].items

Rendered == {"option", "plugin", "open", "include", "transaction"}

\* a node that lacks a field reformat expects, or holds an amount that is not
\* a number and a currency
Malformed(node) ==
    /\ node.kind = "transaction"
    /\ \/ node.posting_or_kv_list = <<>>
       \/ is_none(node.txn_strings)
       \/ \E i \in 1..Len(node.posting_or_kv_list) :
             LET p == node.posting_or_kv_list[i] IN
             /\ p.kind = "posting"
             /\ ~is_none(p.amount)
             /\ Len(unwrap(p.amount)) # 2

\* a transaction with more strings than a payee and a narration
TooManyStrings(node) ==
    /\ node.kind = "transaction"
    /\ ~is_none(node.txn_strings)
    /\ Len(unwrap(node.txn_strings)) > 2

\* every node of the ledger is a blank line or a well-formed directive that
\* reformat renders
WellFormed(doc) ==
    \A i \in 1..Len(doc) :
        /\ doc[i].kind \in Rendered \cup {"\n"}
        /\ ~Malformed(doc[i])
        /\ ~TooManyStrings(doc[i])

\* the postings of a ledger that have an amount
AmountPostings(doc) ==
    UNION {{doc[i].posting_or_kv_list[j] : j \in
               {k \in 1..Len(doc[i].posting_or_kv_list) :
                   /\ doc[i].posting_or_kv_list[k].kind = "posting"
                   /\ ~is_none(doc[i].posting_or_kv_list[k].amount)}} :
           i \in {n \in 1..Len(doc) : doc[n].kind = "transaction"}}

\* the lines of a text
Lines(text) ==
    LET pieces == split(text, "\n") IN
    IF pieces[Len(pieces)] = <<>> THEN SubSeq(pieces, 1, Len(pieces) - 1)
    ELSE pieces

\* a line of a posting with a number that has a period
DecimalPostingLine(line) ==
    LET ts == tokens(line) IN
    /\ Len(ts) >= 3
    /\ Head(line) = " "
    /\ Head(ts[1]) # ";"
    /\ \E i \in 1..Len(ts[2]) : ts[2][i] = "."

\* C12: for every posting with an amount that has a decimal point, whatever the
\* length of the account and of the integer part, reformat succeeds and the
\* posting's line has its '.' at column 50.
C12_PeriodAtColumn50 ==
    (FirstPass /\ fs[PathM].parses /\ WellFormed(Input)) =>
        /\ response.result.tag = "Ok"
        /\ \A line \in Range(Lines(unwrap(response.result.value))) :
              DecimalPostingLine(line) => find(line, ".") = Some(50 - 1)

\* the lines a node is rendered as; a line that no output holds when the node
\* cannot be rendered
Rendering(node) ==
    IF reformat_node(node).tag = "Ok"
    THEN trim_end_matches(reformat_node(node).value, "\n")
    ELSE <<"?">>

\* the rendering of each directive on lines of its own, with the blank lines of
\* the ledger between them
RECURSIVE ExpectedText(_)
ExpectedText(doc) ==
    IF doc = <<>> THEN <<>>
    ELSE (IF Head(doc).kind = "\n" THEN <<"\n">>
          ELSE Rendering(Head(doc)) \o <<"\n">>)
         \o ExpectedText(Tail(doc))

\* C13: between the renderings of two consecutive top-level items the output
\* has as many blank lines as the input has between the items, zero included.
C13_BlankLinesKept ==
    (FirstPass /\ fs[PathM].parses /\ WellFormed(Input)
               /\ response.result.tag = "Ok") =>
        trim_end_matches(unwrap(response.result.value), "\n")
            = trim_end_matches(ExpectedText(Input), "\n")

\* C14: a ledger with a malformed node makes reformat return an error: no text,
\* and no panic.
C14_MalformedIsError ==
    (/\ FirstPass
     /\ fs[PathM].parses
     /\ \A i \in 1..Len(Input) : Input[i].kind \in Rendered \cup {"\n"}
     /\ \E j \in 1..Len(Input) : Malformed(Input[j])) =>
        response.result.tag = "Err"

\* the lines of the directives of a ledger, in order
RECURSIVE DirectiveLines(_)
DirectiveLines(doc) ==
    IF doc = <<>> THEN <<>>
    ELSE (IF Head(doc).kind \in Rendered
          THEN filter_nonempty(split(Rendering(Head(doc)), "\n"))
          ELSE <<>>)
         \o DirectiveLines(Tail(doc))

\* C19: every option, plugin, include, open and transaction directive of the
\* input is in the output once and in order, whatever other nodes stand before
\* or between them.
C19_EveryDirectiveRendered ==
    (FirstPass /\ fs[PathM].parses
               /\ \A i \in 1..Len(Input) :
                     ~Malformed(Input[i]) /\ ~TooManyStrings(Input[i])) =>
        /\ response.result.tag # "Err"
        /\ response.result.tag = "Ok" =>
              filter_nonempty(split(unwrap(response.result.value), "\n"))
                  = DirectiveLines(Input)

\* C20: a posting list of k comments and m postings is rendered as k + m lines
\* that each begin with two spaces, the comments first, then the postings in
\* their order, with no blank line between them.
C20_PostingListLines ==
    (response.fn = "reformat_postings" /\ response.result.tag = "Ok") =>
        LET cs == children_of_kind(response.list, "comment")
            ps == children_of_kind(response.list, "posting")
        IN Lines(response.result.value)
              = [i \in 1..Len(cs) |-> <<" ", " ">> \o cs[i].text]
                \o [i \in 1..Len(ps) |-> reformat_posting(ps[i]).value]

-----------------------------------------------------------------------------
(* Formatting, and the documents the backend is told about *)

\* reformat applied to a text that is held as its tree
Canonical(text) ==
    IF text = <<>> THEN Ok(<<>>) ELSE reformat_top_level(text)

\* a range from the start of the document to or past the end of its last node
Covers(range, text) ==
    /\ range.start = [line |-> 0, character |-> 0]
    /\ \/ text = <<>>
       \/ range.end.line > text[Len(text)].end_row
       \/ /\ range.end.line = text[Len(text)].end_row
          /\ range.end.character >= text[Len(text)].end_col

\* a handler of the kind answers in this step
Answers(kind) ==
    \E s \in Slots : task[s].kind = kind /\ task'[s].kind = "idle"

\* C15: a formatting request is never answered by an error; it is answered by
\* nothing when the text the server holds cannot be rendered, and otherwise by
\* one edit whose range covers that whole text and whose new text is the
\* rendering of that text.
C15_WholeDocumentEdit ==
    [][Answers("formatting") =>
          /\ reply'.result.tag = "Ok"
          /\ IF Canonical(state.text).tag # "Ok"
             THEN reply'.result.value = None
             ELSE /\ reply'.result.value # None
                  /\ Len(unwrap(reply'.result.value)) = 1
                  /\ Covers(unwrap(reply'.result.value)[1].range, state.text)
                  /\ unwrap(reply'.result.value)[1].new_text
                        = Canonical(state.text).value]_vars

DocumentA == FileUri(PathM)

DocumentB == FileUri(PathA)

SameResult(a, b) == a.tag = b.tag /\ a.value = b.value

\* C16: no step of a did_open or did_change handler for document B changes
\* what a completion or a go-to-definition request on document A is answered
\* at any position.
C16_DistinctDocumentsIndependent ==
    [][(\E s \in Slots : /\ task[s].kind \in {"did_open", "did_change"}
                         /\ task[s].uri = DocumentB) =>
          \A position \in Positions(state.text) \cup Positions(state'.text) :
              /\ \A triggered \in BOOLEAN :
                    SameResult(completion(state, position.line,
                                          position.character, triggered),
                               completion(state', position.line,
                                          position.character, triggered))
              /\ SameResult(goto_definition(state, position.line,
                                            position.character),
                            goto_definition(state', position.line,
                                            position.character))]_vars

\* a step of the handler in slot s
StepOf(s) == task'[s] # task[s] \/ (lock.writer = s /\ crashed' # crashed)

\* C17: a did_change that carries a text replaces the text of the Document
\* State by it and changes no other field, ends no other handler and does not
\* end the server; the text changes in no other way than by a did_change or
\* by a load, and not while a completion or a go-to-definition request is being
\* served, so that a request parses the text of the latest of them.
C17_ChangeReplacesOnlyText ==
    [][/\ \A s \in Slots :
             (/\ task[s].kind = "did_change"
              /\ task[s].data.content_changes # <<>>
              /\ StepOf(s)) =>
                 /\ state' = [state EXCEPT
                                 !.text = task[s].data.content_changes[1]]
                 /\ \A t \in Slots \ {s} : task'[t] = task[t]
                 /\ crashed' = crashed
       /\ \A s \in Slots :
             (task[s].kind = "idle" /\ task'[s].kind = "did_change") =>
                 /\ state' = state
                 /\ \A t \in Slots \ {s} : task'[t] = task[t]
                 /\ crashed' = crashed
       /\ state'.text # state.text =>
             /\ \E s \in Slots :
                   \/ /\ task[s].kind = "did_change"
                      /\ state'.text = task[s].data.content_changes[1]
                   \/ /\ task[s].kind = "did_open"
                      /\ task[s].pc = "text"
                      /\ state'.text = task[s].data.text
             /\ \A s \in Slots :
                   task[s].kind \notin {"completion", "goto_definition"}]_vars

\* a did_change has replaced the text of a server that holds a built index
C17_Witness ==
    /\ reply.kind = "did_change"
    /\ state.text \in ChangeTexts
    /\ state.account_trie # None
    /\ state.commodities # EmptyMap
    /\ ~crashed

\* a load_ledgers call is between its first and its last assignment
Assigning ==
    \E s \in Slots : task[s].kind = "did_open" /\ task[s].pc # "build"

\* the positions of a text that stand on a currency node
CurrencyPositions(text) ==
    {position \in Positions(text) :
        LET node == named_descendant_for_point_range(text, position.line,
                                                     position.character)
        IN ~is_none(node) /\ unwrap(node).kind = "currency"}

\* C21: outside the assignments of load_ledgers, which no handler can look
\* into, the account trie is present exactly when the currency trie is; and a
\* completion that is served while the account trie is present is answered
\* without a failed unwrap at every currency node of the text.
C21_TriesTogether ==
    /\ ~Assigning => (is_none(state.account_trie) <=> is_none(state.currency_trie))
    /\ (lock.readers # {} /\ ~is_none(state.account_trie)) =>
          \A position \in CurrencyPositions(state.text) :
              completion(state, position.line, position.character, FALSE).tag = "Ok"

\* a completion is being served on a text with a currency node, on the index
\* of an earlier build, right after an open whose build failed
C21_Witness ==
    /\ \E s \in Slots : task[s].kind = "completion"
    /\ reply.kind = "did_open"
    /\ reply.result.tag = "Err"
    /\ ~is_none(state.account_trie)
    /\ ~is_none(state.currency_trie)
    /\ CurrencyPositions(state.text) # {}

=============================================================================
